---------------------------- MODULE Spec2Model ----------------------------
(***************************************************************************)
(* Clarity.js: the noisy key exchange of src/Clarity.js as a state machine. *)
(*                                                                         *)
(* The script of Clarity.js runs top to bottom once.  Every statement that  *)
(* builds an array is one action; the three statements that call the       *)
(* random source (randomBigInt, addNoise) take one step per map callback,   *)
(* because each callback consumes fresh random bytes.                       *)
(*                                                                         *)
(* The source works on 256-bit BigInts (Q = 2^256 - 189, 40-bit secrets,    *)
(* 256 dimensions).  TLC's integers are 32 bits wide, so the widths are     *)
(* scaled down and everything else is kept: Q = 2^QBits - QOffset is still  *)
(* the largest prime below a power of two, the extracted bit is still bit   *)
(* QBits - 1, secrets are still drawn below a power of two and the random   *)
(* source still delivers whole bytes 0..255.                                *)
(***************************************************************************)
EXTENDS Integers, Sequences, FiniteSets, TLC

----------------------------------------------------------------------------
(* Parameters (Clarity.js lines 41-44), scaled as described above.          *)

\* Bit width of the modulus: 256 in the source.
QBits == 4
\* Distance of the modulus below 2^QBits: 189 in the source.
QOffset == 3
\* Bit width of a secret: 40 in the source.
SecretBits == 1
\* const Q = (1n << 256n) - 189n
Q == 2^QBits - QOffset
\* const SECRET_MAX = 1n << 40n
SECRET_MAX == 2^SecretBits
\* const NOISE_MAX = 1n
NOISE_MAX == 1
\* const NUM_BITS = 256
NUM_BITS == 2
\* The shift of (val >> 255n) & 1n: the top bit of a QBits-wide value.
MsbShift == QBits - 1
\* The width of padStart(64, '0'): NUM_BITS / 4 hexadecimal digits, rounded up.
HexWidth == (NUM_BITS + 3) \div 4
\* Largest value of an element of a Uint8Array.
MaxByte == 255
Byte == 0..MaxByte

----------------------------------------------------------------------------
(* BigInt arithmetic as JavaScript defines it.                              *)

\* BigInt %: the remainder takes the sign of the dividend (-1n % 13n is -1n).
JsRem(a, b) == IF a >= 0 THEN a % b ELSE -((-a) % b)

\* max.toString(2).length for max >= 0: the number of binary digits.
RECURSIVE BitLength(_)
BitLength(n) == IF n < 2 THEN 1 ELSE 1 + BitLength(n \div 2)

\* Math.ceil(bits / 8)
ByteCount(max) == (BitLength(max) + 7) \div 8

\* The contents crypto.getRandomValues can leave in a Uint8Array of n bytes.
ByteArrays(n) == [1..n -> Byte]

\* The loop of randomBigInt: result = (result << 8n) + BigInt(array[i]).
RECURSIVE FoldBytes(_, _, _)
FoldBytes(array, i, result) ==
    IF i > Len(array) THEN result
    ELSE FoldBytes(array, i + 1, result * 256 + array[i])

\* randomBigInt without its final reduction modulo max.
randomBigInt_NoReduce(max, array) == FoldBytes(array, 1, 0)

\* randomBigInt(max), given the bytes the random source delivered.
randomBigInt(max, array) == JsRem(FoldBytes(array, 1, 0), max)

\* A noise term without the shift to the signed range: 0, 1 or 2.
Noise_Unsigned(randomByte) == randomByte % 3

\* const noise = BigInt((randomByte % 3) - 1)
Noise(randomByte) == (randomByte % 3) - 1

\* addNoise without the "+ Q" that keeps the dividend non-negative.
addNoise_NoOffset(value, randomByte) == JsRem(value + ((randomByte % 3) - 1), Q)

\* addNoise(value), given the byte the random source delivered.
addNoise(value, randomByte) == JsRem(value + Noise(randomByte) + Q, Q)

\* A public value that adds the secret to the basis.
PublicOf_Sum(g, secret) == JsRem(g + secret, Q)

\* (G_ARRAY[i] * secret) % Q
PublicOf(g, secret) == JsRem(g * secret, Q)

\* (pub * secret) % Q
SharedOf(pub, secret) == JsRem(pub * secret, Q)

\* A shift by the whole width of the modulus, which leaves no bit.
MsbOf_ShiftedOut(val) == (val \div 2^(MsbShift + 1)) % 2

\* (val >> 255n) & 1n
MsbOf(val) == (val \div 2^MsbShift) % 2

\* bits.reduce((acc, bit) => (acc << 1n) | bit, 0n); acc << 1n has bit 0
\* clear, so or-ing a bit in adds it.
RECURSIVE ReduceBits(_, _, _)
ReduceBits(bits, i, acc) ==
    IF i > Len(bits) THEN acc
    ELSE ReduceBits(bits, i + 1, acc * 2 + bits[i])

\* An assembly that takes the last dimension as the most significant bit.
bitsToBigInt_LsbFirst(bits) ==
    ReduceBits([i \in 1..Len(bits) |-> bits[Len(bits) + 1 - i]], 1, 0)

bitsToBigInt(bits) == ReduceBits(bits, 1, 0)

\* The digits of BigInt.prototype.toString(16).
HexDigits == <<"0", "1", "2", "3", "4", "5", "6", "7",
               "8", "9", "a", "b", "c", "d", "e", "f">>

\* n.toString(16) for n >= 0: no leading zeros, "0" for zero.
RECURSIVE ToString16(_)
ToString16(n) ==
    IF n < 16 THEN <<HexDigits[n + 1]>>
    ELSE ToString16(n \div 16) \o <<HexDigits[(n % 16) + 1]>>

\* s.padStart(width, '0'): pads on the left, never truncates.
PadStart(s, width) ==
    IF Len(s) >= width THEN s
    ELSE [k \in 1..(width - Len(s)) |-> "0"] \o s

\* key.toString(16).padStart(width, '0')
ToHexPadded(n, width) == PadStart(ToString16(n), width)

----------------------------------------------------------------------------
(* The array statements of the script.                                      *)

\* secrets.map((secret, i) => (G_ARRAY[i] * secret) % Q)
PublicsMap(secrets, bases) ==
    [i \in 1..Len(secrets) |-> PublicOf(bases[i], secrets[i])]

\* A shared-value map that multiplies every dimension by the first secret.
SharedMap_FirstSecret(publicsNoisy, secrets) ==
    [i \in 1..Len(publicsNoisy) |-> SharedOf(publicsNoisy[i], secrets[1])]

\* publicsNoisy.map((pub, i) => (pub * secrets[i]) % Q)
SharedMap(publicsNoisy, secrets) ==
    [i \in 1..Len(publicsNoisy) |-> SharedOf(publicsNoisy[i], secrets[i])]

\* shared.map(val => (val >> 255n) & 1n)
KeyMap(shared) == [i \in 1..Len(shared) |-> MsbOf(shared[i])]

----------------------------------------------------------------------------
(* State.                                                                   *)

VARIABLES
    pc,                 \* the statement the script is about to run
    G_ARRAY,            \* public bases
    aliceSecrets, alicePublics, alicePublicsNoisy,
    bobSecrets, bobPublics, bobPublicsNoisy,
    aliceNoise,         \* the noise addNoise drew for each of Alice's publics
    bobNoise,           \* the noise addNoise drew for each of Bob's publics
    sharedAlice, sharedBob,
    keyAlice, keyBob,
    keyAliceBigInt, keyBobBigInt,
    aliceHex, bobHex,   \* the two logged hexadecimal strings
    keysMatch,          \* the logged comparison
    call                \* a stand-alone call of one helper function

scriptVars == <<pc, G_ARRAY, aliceSecrets, alicePublics, alicePublicsNoisy,
                bobSecrets, bobPublics, bobPublicsNoisy, aliceNoise, bobNoise,
                sharedAlice, sharedBob, keyAlice, keyBob,
                keyAliceBigInt, keyBobBigInt, aliceHex, bobHex, keysMatch>>

vars == <<scriptVars, call>>

\* The statements of the script, in source order.
Stages == <<"G_ARRAY",
            "aliceSecrets", "alicePublics", "alicePublicsNoisy",
            "bobSecrets", "bobPublics", "bobPublicsNoisy",
            "sharedAlice", "sharedBob", "keyAlice", "keyBob",
            "keyAliceBigInt", "keyBobBigInt", "log", "done">>

StageIndex(stage) == CHOOSE k \in 1..Len(Stages) : Stages[k] = stage

\* A script whose shared-value statements come before Bob's noisy public values.
StageAfter_SharedEarly(stage) ==
    IF stage = "bobPublics" THEN "sharedAlice" ELSE Stages[StageIndex(stage) + 1]

\* The statement that follows `stage` in the script.
StageAfter(stage) == Stages[StageIndex(stage) + 1]

\* No binding of the script is initialised yet; `start` is "G_ARRAY" for a run
\* of the script and "call" when only one helper function is called.
Uninitialised(start) ==
    /\ pc = start
    /\ G_ARRAY = <<>>
    /\ aliceSecrets = <<>> /\ alicePublics = <<>> /\ alicePublicsNoisy = <<>>
    /\ bobSecrets = <<>> /\ bobPublics = <<>> /\ bobPublicsNoisy = <<>>
    /\ aliceNoise = <<>> /\ bobNoise = <<>>
    /\ sharedAlice = <<>> /\ sharedBob = <<>>
    /\ keyAlice = <<>> /\ keyBob = <<>>
    /\ keyAliceBigInt = -1 /\ keyBobBigInt = -1
    /\ aliceHex = <<>> /\ bobHex = <<>>
    /\ keysMatch = FALSE

NoCall == [fn |-> "none"]

\* The script before its first statement.
Init == Uninitialised("G_ARRAY") /\ call = NoCall

\* pc after one callback of a map that fills `array` up to NUM_BITS entries.
AfterCallback(array) ==
    IF Len(array) = NUM_BITS THEN StageAfter(pc) ELSE pc

\* Array(NUM_BITS).fill(null).map(() => randomBigInt(Q)): one callback.
GenBasis ==
    /\ pc = "G_ARRAY"
    /\ \E r \in {randomBigInt(Q, array) : array \in ByteArrays(ByteCount(Q))} :
          G_ARRAY' = Append(G_ARRAY, r)
    /\ pc' = AfterCallback(G_ARRAY')
    /\ UNCHANGED <<aliceSecrets, alicePublics, alicePublicsNoisy,
                   bobSecrets, bobPublics, bobPublicsNoisy, aliceNoise, bobNoise,
                   sharedAlice, sharedBob, keyAlice, keyBob,
                   keyAliceBigInt, keyBobBigInt, aliceHex, bobHex, keysMatch, call>>

\* Array(NUM_BITS).fill(null).map(() => randomBigInt(SECRET_MAX)): one callback.
GenAliceSecrets ==
    /\ pc = "aliceSecrets"
    /\ \E r \in {randomBigInt(SECRET_MAX, array) :
                    array \in ByteArrays(ByteCount(SECRET_MAX))} :
          aliceSecrets' = Append(aliceSecrets, r)
    /\ pc' = AfterCallback(aliceSecrets')
    /\ UNCHANGED <<G_ARRAY, alicePublics, alicePublicsNoisy,
                   bobSecrets, bobPublics, bobPublicsNoisy, aliceNoise, bobNoise,
                   sharedAlice, sharedBob, keyAlice, keyBob,
                   keyAliceBigInt, keyBobBigInt, aliceHex, bobHex, keysMatch, call>>

ComputeAlicePublics ==
    /\ pc = "alicePublics"
    /\ alicePublics' = PublicsMap(aliceSecrets, G_ARRAY)
    /\ pc' = StageAfter(pc)
    /\ UNCHANGED <<G_ARRAY, aliceSecrets, alicePublicsNoisy,
                   bobSecrets, bobPublics, bobPublicsNoisy, aliceNoise, bobNoise,
                   sharedAlice, sharedBob, keyAlice, keyBob,
                   keyAliceBigInt, keyBobBigInt, aliceHex, bobHex, keysMatch, call>>

\* alicePublics.map(pub => addNoise(pub)): one callback.
NoiseAlicePublics ==
    /\ pc = "alicePublicsNoisy"
    /\ LET pub == alicePublics[Len(alicePublicsNoisy) + 1] IN
       \E drawn \in {<<Noise(b), addNoise(pub, b)>> : b \in Byte} :
          /\ aliceNoise' = Append(aliceNoise, drawn[1])
          /\ alicePublicsNoisy' = Append(alicePublicsNoisy, drawn[2])
    /\ pc' = AfterCallback(alicePublicsNoisy')
    /\ UNCHANGED <<G_ARRAY, aliceSecrets, alicePublics,
                   bobSecrets, bobPublics, bobPublicsNoisy, bobNoise,
                   sharedAlice, sharedBob, keyAlice, keyBob,
                   keyAliceBigInt, keyBobBigInt, aliceHex, bobHex, keysMatch, call>>

GenBobSecrets ==
    /\ pc = "bobSecrets"
    /\ \E r \in {randomBigInt(SECRET_MAX, array) :
                    array \in ByteArrays(ByteCount(SECRET_MAX))} :
          bobSecrets' = Append(bobSecrets, r)
    /\ pc' = AfterCallback(bobSecrets')
    /\ UNCHANGED <<G_ARRAY, aliceSecrets, alicePublics, alicePublicsNoisy,
                   bobPublics, bobPublicsNoisy, aliceNoise, bobNoise,
                   sharedAlice, sharedBob, keyAlice, keyBob,
                   keyAliceBigInt, keyBobBigInt, aliceHex, bobHex, keysMatch, call>>

ComputeBobPublics ==
    /\ pc = "bobPublics"
    /\ bobPublics' = PublicsMap(bobSecrets, G_ARRAY)
    /\ pc' = StageAfter(pc)
    /\ UNCHANGED <<G_ARRAY, aliceSecrets, alicePublics, alicePublicsNoisy,
                   bobSecrets, bobPublicsNoisy, aliceNoise, bobNoise,
                   sharedAlice, sharedBob, keyAlice, keyBob,
                   keyAliceBigInt, keyBobBigInt, aliceHex, bobHex, keysMatch, call>>

NoiseBobPublics ==
    /\ pc = "bobPublicsNoisy"
    /\ LET pub == bobPublics[Len(bobPublicsNoisy) + 1] IN
       \E drawn \in {<<Noise(b), addNoise(pub, b)>> : b \in Byte} :
          /\ bobNoise' = Append(bobNoise, drawn[1])
          /\ bobPublicsNoisy' = Append(bobPublicsNoisy, drawn[2])
    /\ pc' = AfterCallback(bobPublicsNoisy')
    /\ UNCHANGED <<G_ARRAY, aliceSecrets, alicePublics, alicePublicsNoisy,
                   bobSecrets, bobPublics, aliceNoise,
                   sharedAlice, sharedBob, keyAlice, keyBob,
                   keyAliceBigInt, keyBobBigInt, aliceHex, bobHex, keysMatch, call>>

\* const sharedAlice = bobPublicsNoisy.map((pub, i) => (pub * aliceSecrets[i]) % Q)
ComputeSharedAlice ==
    /\ pc = "sharedAlice"
    /\ sharedAlice' = SharedMap(bobPublicsNoisy, aliceSecrets)
    /\ pc' = StageAfter(pc)
    /\ UNCHANGED <<G_ARRAY, aliceSecrets, alicePublics, alicePublicsNoisy,
                   bobSecrets, bobPublics, bobPublicsNoisy, aliceNoise, bobNoise,
                   sharedBob, keyAlice, keyBob,
                   keyAliceBigInt, keyBobBigInt, aliceHex, bobHex, keysMatch, call>>

\* const sharedBob = alicePublicsNoisy.map((pub, i) => (pub * bobSecrets[i]) % Q)
ComputeSharedBob ==
    /\ pc = "sharedBob"
    /\ sharedBob' = SharedMap(alicePublicsNoisy, bobSecrets)
    /\ pc' = StageAfter(pc)
    /\ UNCHANGED <<G_ARRAY, aliceSecrets, alicePublics, alicePublicsNoisy,
                   bobSecrets, bobPublics, bobPublicsNoisy, aliceNoise, bobNoise,
                   sharedAlice, keyAlice, keyBob,
                   keyAliceBigInt, keyBobBigInt, aliceHex, bobHex, keysMatch, call>>

ComputeKeyAlice ==
    /\ pc = "keyAlice"
    /\ keyAlice' = KeyMap(sharedAlice)
    /\ pc' = StageAfter(pc)
    /\ UNCHANGED <<G_ARRAY, aliceSecrets, alicePublics, alicePublicsNoisy,
                   bobSecrets, bobPublics, bobPublicsNoisy, aliceNoise, bobNoise,
                   sharedAlice, sharedBob, keyBob,
                   keyAliceBigInt, keyBobBigInt, aliceHex, bobHex, keysMatch, call>>

ComputeKeyBob ==
    /\ pc = "keyBob"
    /\ keyBob' = KeyMap(sharedBob)
    /\ pc' = StageAfter(pc)
    /\ UNCHANGED <<G_ARRAY, aliceSecrets, alicePublics, alicePublicsNoisy,
                   bobSecrets, bobPublics, bobPublicsNoisy, aliceNoise, bobNoise,
                   sharedAlice, sharedBob, keyAlice,
                   keyAliceBigInt, keyBobBigInt, aliceHex, bobHex, keysMatch, call>>

ComputeKeyAliceBigInt ==
    /\ pc = "keyAliceBigInt"
    /\ keyAliceBigInt' = bitsToBigInt(keyAlice)
    /\ pc' = StageAfter(pc)
    /\ UNCHANGED <<G_ARRAY, aliceSecrets, alicePublics, alicePublicsNoisy,
                   bobSecrets, bobPublics, bobPublicsNoisy, aliceNoise, bobNoise,
                   sharedAlice, sharedBob, keyAlice, keyBob,
                   keyBobBigInt, aliceHex, bobHex, keysMatch, call>>

ComputeKeyBobBigInt ==
    /\ pc = "keyBobBigInt"
    /\ keyBobBigInt' = bitsToBigInt(keyBob)
    /\ pc' = StageAfter(pc)
    /\ UNCHANGED <<G_ARRAY, aliceSecrets, alicePublics, alicePublicsNoisy,
                   bobSecrets, bobPublics, bobPublicsNoisy, aliceNoise, bobNoise,
                   sharedAlice, sharedBob, keyAlice, keyBob,
                   keyAliceBigInt, aliceHex, bobHex, keysMatch, call>>

\* The three console.log lines that report the keys.
LogKeys ==
    /\ pc = "log"
    /\ aliceHex' = ToHexPadded(keyAliceBigInt, HexWidth)
    /\ bobHex' = ToHexPadded(keyBobBigInt, HexWidth)
    /\ keysMatch' = (keyAliceBigInt = keyBobBigInt)
    /\ pc' = StageAfter(pc)
    /\ UNCHANGED <<G_ARRAY, aliceSecrets, alicePublics, alicePublicsNoisy,
                   bobSecrets, bobPublics, bobPublicsNoisy, aliceNoise, bobNoise,
                   sharedAlice, sharedBob, keyAlice, keyBob,
                   keyAliceBigInt, keyBobBigInt, call>>

Next ==
    \/ GenBasis
    \/ GenAliceSecrets
    \/ ComputeAlicePublics
    \/ NoiseAlicePublics
    \/ GenBobSecrets
    \/ ComputeBobPublics
    \/ NoiseBobPublics
    \/ ComputeSharedAlice
    \/ ComputeSharedBob
    \/ ComputeKeyAlice
    \/ ComputeKeyBob
    \/ ComputeKeyAliceBigInt
    \/ ComputeKeyBobBigInt
    \/ LogKeys

Spec == Init /\ [][Next]_vars

\* The script is one synchronous run: it is never suspended part-way.
FairSpec == Spec /\ WF_vars(Next)

----------------------------------------------------------------------------
(* Stand-alone calls of the helper functions, on inputs drawn from bounded  *)
(* sets.  The script does not run in these specifications (pc = "call").    *)

\* Largest bound handed to randomBigInt; 256 is the first that needs two bytes.
MaxRandomBound == 256

\* randomBigInt(max) for every max in 1..MaxRandomBound and every content of
\* its byte array.
RandomCallInit ==
    /\ Uninitialised("call")
    /\ \E max \in 1..MaxRandomBound :
         \E array \in ByteArrays(ByteCount(max)) :
            call = [fn |-> "randomBigInt", max |-> max, array |-> array,
                    returned |-> FALSE, result |-> 0]

RandomBigIntCall ==
    /\ call.fn = "randomBigInt"
    /\ ~call.returned
    /\ call' = [call EXCEPT !.returned = TRUE,
                            !.result = randomBigInt(call.max, call.array)]
    /\ UNCHANGED scriptVars

\* The calls of randomBigInt alone, and the part of the script that calls it:
\* the bases and both parties' secrets.
RandomNext ==
    \/ RandomBigIntCall
    \/ GenBasis
    \/ GenAliceSecrets
    \/ ComputeAlicePublics
    \/ NoiseAlicePublics
    \/ GenBobSecrets

SpecRandom == (Init \/ RandomCallInit) /\ [][RandomNext]_vars

\* The values the noise term can take.
NoiseRange == (0 - NOISE_MAX)..NOISE_MAX

\* addNoise(value) for every value in [0, Q), called once with each value of
\* the random byte, 0 to 255 in turn; tally counts how often each noise term
\* was drawn.
NoiseCallInit ==
    /\ Uninitialised("call")
    /\ \E value \in 0..(Q - 1) :
         call = [fn |-> "addNoise", value |-> value, randomByte |-> -1,
                 result |-> value, tally |-> [n \in NoiseRange |-> 0]]

AddNoiseCall ==
    /\ call.fn = "addNoise"
    /\ call.randomByte < MaxByte
    /\ LET b == call.randomByte + 1 IN
       call' = [call EXCEPT !.randomByte = b,
                            !.result = addNoise(call.value, b),
                            !.tally[Noise(b)] = @ + 1]
    /\ UNCHANGED scriptVars

NoiseNext == AddNoiseCall

SpecNoise == NoiseCallInit /\ [][NoiseNext]_vars

\* Longest key, in hexadecimal digits, handed to bitsToBigInt.
MaxHexDigits == 2

\* The bit sequences of n bits.
BitSeqs(n) == [1..n -> {0, 1}]

\* The reverse of toString(16).padStart: every digit gives four bits, most
\* significant first.
HexValue(digit) == (CHOOSE k \in 1..16 : HexDigits[k] = digit) - 1

HexToBits(hex) ==
    [i \in 1..(4 * Len(hex)) |->
        (HexValue(hex[((i - 1) \div 4) + 1]) \div 2^(3 - ((i - 1) % 4))) % 2]

\* bitsToBigInt and the logged hexadecimal string for every key of 4, 8, ...
\* bits, then the string read back.
BitsCallInit ==
    /\ Uninitialised("call")
    /\ \E digits \in 1..MaxHexDigits :
         \E bits \in BitSeqs(4 * digits) :
            call = [fn |-> "bitsToBigInt", step |-> "assemble", bits |-> bits,
                    value |-> -1, hex |-> <<>>, decoded |-> <<>>]

AssembleKey ==
    /\ call.fn = "bitsToBigInt"
    /\ call.step = "assemble"
    /\ call' = [call EXCEPT !.step = "encode",
                            !.value = bitsToBigInt(call.bits)]
    /\ UNCHANGED scriptVars

EncodeKey ==
    /\ call.fn = "bitsToBigInt"
    /\ call.step = "encode"
    /\ call' = [call EXCEPT !.step = "decode",
                            !.hex = ToHexPadded(call.value, Len(call.bits) \div 4)]
    /\ UNCHANGED scriptVars

DecodeKey ==
    /\ call.fn = "bitsToBigInt"
    /\ call.step = "decode"
    /\ call' = [call EXCEPT !.step = "done", !.decoded = HexToBits(call.hex)]
    /\ UNCHANGED scriptVars

BitsNext == AssembleKey \/ EncodeKey \/ DecodeKey

SpecBits == BitsCallInit /\ [][BitsNext]_vars

\* Secret bounds whose product with the noise bound is at least a quarter of
\* the modulus, up to the modulus itself.
WideSecretBounds == {s \in 1..Q : 4 * s * NOISE_MAX >= Q}

\* What randomBigInt(max) can return.
RandomDraws(max) == {randomBigInt(max, array) : array \in ByteArrays(ByteCount(max))}

\* One dimension of the exchange with SECRET_MAX widened: the statements of the
\* script for a single index i, with the secrets drawn below call.secretMax.
WideInit ==
    /\ Uninitialised("call")
    /\ \E s \in WideSecretBounds :
         call = [fn |-> "exchange", step |-> "params", secretMax |-> s,
                 g |-> 0, a |-> 0, b |-> 0, pubA |-> 0, pubB |-> 0,
                 noisyA |-> 0, noisyB |-> 0, sharedA |-> 0, sharedB |-> 0,
                 keyA |-> 0, keyB |-> 0]

\* G_ARRAY[i], aliceSecrets[i], alicePublics[i], bobSecrets[i], bobPublics[i]
WideGenerate ==
    /\ call.fn = "exchange"
    /\ call.step = "params"
    /\ \E g \in RandomDraws(Q) :
         \E a \in RandomDraws(call.secretMax), b \in RandomDraws(call.secretMax) :
            call' = [call EXCEPT !.step = "generated", !.g = g, !.a = a, !.b = b,
                                 !.pubA = PublicOf(g, a), !.pubB = PublicOf(g, b)]
    /\ UNCHANGED scriptVars

\* alicePublicsNoisy[i], bobPublicsNoisy[i]
WideNoise ==
    /\ call.fn = "exchange"
    /\ call.step = "generated"
    /\ \E na \in {addNoise(call.pubA, byte) : byte \in Byte} :
         \E nb \in {addNoise(call.pubB, byte) : byte \in Byte} :
            call' = [call EXCEPT !.step = "exchanged", !.noisyA = na, !.noisyB = nb]
    /\ UNCHANGED scriptVars

\* sharedAlice[i], sharedBob[i], keyAlice[i], keyBob[i]
WideDerive ==
    /\ call.fn = "exchange"
    /\ call.step = "exchanged"
    /\ LET sa == SharedOf(call.noisyB, call.a)
           sb == SharedOf(call.noisyA, call.b)
       IN call' = [call EXCEPT !.step = "done", !.sharedA = sa, !.sharedB = sb,
                               !.keyA = MsbOf(sa), !.keyB = MsbOf(sb)]
    /\ UNCHANGED scriptVars

WideNext == WideGenerate \/ WideNoise \/ WideDerive

SpecWide == WideInit /\ [][WideNext]_vars

----------------------------------------------------------------------------
(* Properties of a run of the script (Spec, FairSpec).                      *)

Dims == 1..NUM_BITS

\* G_ARRAY[i] * aliceSecrets[i] * bobSecrets[i] mod Q: the shared value of
\* dimension i without any noise.
NoiselessProduct(i) == (G_ARRAY[i] * aliceSecrets[i] * bobSecrets[i]) % Q

\* The most significant bit of a value below 2^QBits.
TopBit(v) == IF v >= 2^(QBits - 1) THEN 1 ELSE 0

\* Bit k (0 = least significant) of n.
BitAt(n, k) == (n \div 2^k) % 2

\* Distance between x and y around the circle of residues modulo Q.
CircDist(x, y) ==
    LET d == (x - y) % Q IN IF d <= Q - d THEN d ELSE Q - d

\* C1. Key agreement: in every dimension the bit Alice extracts from
\* sharedAlice[i] equals the bit Bob extracts from sharedBob[i], and so the two
\* assembled keys are equal, whatever the random source delivered.
C1_KeyAgreement ==
    /\ Len(keyBob) = NUM_BITS => \A i \in Dims : keyAlice[i] = keyBob[i]
    /\ pc = "done" => keyAliceBigInt = keyBobBigInt /\ keysMatch

\* Every noise term drawn so far is 0, and all of them have been drawn.
AllNoiseZero ==
    /\ Len(aliceNoise) = NUM_BITS
    /\ Len(bobNoise) = NUM_BITS
    /\ \A i \in Dims : aliceNoise[i] = 0 /\ bobNoise[i] = 0

\* C2. Zero-noise reference: when every noise term is 0, each party's shared
\* value of dimension i is G_ARRAY[i] * aliceSecrets[i] * bobSecrets[i] mod Q,
\* and both keys are the key whose bit of dimension i is the most significant
\* bit of that product.
C2_ZeroNoiseReference ==
    AllNoiseZero =>
        /\ Len(sharedAlice) = NUM_BITS =>
              \A i \in Dims : sharedAlice[i] = NoiselessProduct(i)
        /\ Len(sharedBob) = NUM_BITS =>
              \A i \in Dims : sharedBob[i] = NoiselessProduct(i)
        /\ pc = "done" =>
              /\ keyAliceBigInt = keyBobBigInt
              /\ keyAliceBigInt \in 0..(2^NUM_BITS - 1)
              /\ \A i \in Dims :
                    BitAt(keyAliceBigInt, NUM_BITS - i) = TopBit(NoiselessProduct(i))

\* A finished run without noise whose key has a 1 and a 0 in it.
C2_Witness ==
    /\ pc = "done"
    /\ AllNoiseZero
    /\ keyAlice = <<1, 0>>
    /\ keyBobBigInt = 2^(NUM_BITS - 1)

\* The key bits of one dimension, from the five inputs of that dimension only:
\* its basis, Alice's and Bob's secret, and the noise on Alice's and on Bob's
\* public value.
DimKeyAlice(g, a, b, eA, eB) == TopBit((((((g * b) % Q) + eB) % Q) * a) % Q)
DimKeyBob(g, a, b, eA, eB) == TopBit((((((g * a) % Q) + eA) % Q) * b) % Q)

\* C7. Per-dimension independence: keyAlice[i] and keyBob[i] are functions of
\* G_ARRAY[i], aliceSecrets[i], bobSecrets[i] and the two noise draws of
\* dimension i alone, so runs that agree on these five inputs agree on both
\* bits, whatever the other dimensions hold.
C7_DimensionIndependence ==
    /\ Len(keyAlice) = NUM_BITS =>
          \A i \in Dims :
             keyAlice[i] = DimKeyAlice(G_ARRAY[i], aliceSecrets[i], bobSecrets[i],
                                       aliceNoise[i], bobNoise[i])
    /\ Len(keyBob) = NUM_BITS =>
          \A i \in Dims :
             keyBob[i] = DimKeyBob(G_ARRAY[i], aliceSecrets[i], bobSecrets[i],
                                   aliceNoise[i], bobNoise[i])

\* A finished run whose two dimensions differ in every input and in both key
\* bits.
C7_Witness ==
    /\ pc = "done"
    /\ G_ARRAY[1] # G_ARRAY[2]
    /\ aliceSecrets[1] # aliceSecrets[2]
    /\ bobSecrets[1] # bobSecrets[2]
    /\ aliceNoise[1] # aliceNoise[2]
    /\ bobNoise[1] # bobNoise[2]
    /\ keyAlice[1] # keyAlice[2]
    /\ keyBob[1] # keyBob[2]

\* C10. Noise-gap bound: with eA[i], eB[i] in {-1, 0, +1} the noise on Alice's
\* and Bob's public value, sharedAlice[i] - sharedBob[i] is congruent modulo Q
\* to eB[i] * aliceSecrets[i] - eA[i] * bobSecrets[i]; the two shared values
\* are at circular distance at most aliceSecrets[i] + bobSecrets[i], which is
\* below 2 * SECRET_MAX, and each is at circular distance below SECRET_MAX from
\* the noiseless product.
C10_NoiseGapBound ==
    /\ \A i \in 1..Len(aliceNoise) : aliceNoise[i] \in {-1, 0, 1}
    /\ \A i \in 1..Len(bobNoise) : bobNoise[i] \in {-1, 0, 1}
    /\ Len(sharedBob) = NUM_BITS =>
          \A i \in Dims :
             LET a == aliceSecrets[i]
                 b == bobSecrets[i]
                 eA == aliceNoise[i]
                 eB == bobNoise[i]
             IN /\ (sharedAlice[i] - sharedBob[i]) % Q = (eB * a - eA * b) % Q
                /\ CircDist(sharedAlice[i], sharedBob[i]) <= a + b
                /\ a + b < 2 * SECRET_MAX
                /\ CircDist(sharedAlice[i], NoiselessProduct(i)) < SECRET_MAX
                /\ CircDist(sharedBob[i], NoiselessProduct(i)) < SECRET_MAX

\* Both shared values of dimension 1 are off the noiseless product, in opposite
\* directions, and as far apart as the bound allows.
C10_Witness ==
    /\ Len(sharedBob) = NUM_BITS
    /\ aliceNoise[1] = -1 /\ bobNoise[1] = 1
    /\ CircDist(sharedAlice[1], sharedBob[1]) = aliceSecrets[1] + bobSecrets[1]
    /\ aliceSecrets[1] + bobSecrets[1] = 2 * (SECRET_MAX - 1)
    /\ sharedAlice[1] # NoiselessProduct(1)
    /\ sharedBob[1] # NoiselessProduct(1)

\* The protocol state of each party, read off the script's bindings:
\* 0 = Uninitialized (its secrets are not all generated), 1 = SecretsGenerated,
\* 2 = KeyDerived (its key bits are extracted).
PartyRank(secrets, key) ==
    IF Len(secrets) < NUM_BITS THEN 0
    ELSE IF Len(key) < NUM_BITS THEN 1 ELSE 2

AliceRank == PartyRank(aliceSecrets, keyAlice)
BobRank == PartyRank(bobSecrets, keyBob)

\* One step of the script moves a party to the next protocol state or leaves
\* it where it is, and a shared-value statement runs only once both parties'
\* noisy public values exist for every dimension.
OrderedStep ==
    /\ AliceRank' \in {AliceRank, AliceRank + 1}
    /\ BobRank' \in {BobRank, BobRank + 1}
    /\ (pc \in {"sharedAlice", "sharedBob"} /\ pc' # pc) =>
          /\ Len(alicePublicsNoisy) = NUM_BITS
          /\ Len(bobPublicsNoisy) = NUM_BITS
          /\ AliceRank = 1 /\ BobRank = 1

\* How far the script has come: the statements behind it plus the callbacks
\* run so far.  It is at most Len(Stages) + 5 * NUM_BITS.
Progress ==
    StageIndex(pc) + Len(G_ARRAY) + Len(aliceSecrets) + Len(alicePublicsNoisy)
                   + Len(bobSecrets) + Len(bobPublicsNoisy)

\* C8. Protocol ordering: each party goes Uninitialized, SecretsGenerated,
\* KeyDerived in that order, one state at a time and never back; shared values
\* are computed only after the other party's noisy public values were produced;
\* and every run ends with both parties in KeyDerived: every step takes the
\* script further, a step is possible until the script is done, and a script
\* that is done has both keys.
C8_ProtocolOrdering ==
    /\ AliceRank = 0 /\ BobRank = 0
    /\ [][OrderedStep /\ Progress' > Progress]_vars
    /\ [](pc = "done" \/ ENABLED Next)
    /\ [](pc = "done" => AliceRank = 2 /\ BobRank = 2)

\* The same end of every run as a liveness property of FairSpec.
BothKeysDerivedForGood == <>[](AliceRank = 2 /\ BobRank = 2)

\* The run is over and both parties hold their keys.
C8_Witness ==
    /\ pc = "done"
    /\ AliceRank = 2 /\ BobRank = 2
    /\ Len(sharedAlice) = NUM_BITS /\ Len(sharedBob) = NUM_BITS

----------------------------------------------------------------------------
(* Properties of the helper functions (SpecRandom, SpecNoise, SpecBits) and *)
(* of the exchange with a widened secret bound (SpecWide).                  *)

\* C3. Necessity of the parameter invariant: for every secret bound whose
\* product with the noise bound is a quarter of the modulus or more, there are
\* a basis, secrets of both parties below that bound and noise draws for which
\* the bit Alice extracts differs from the bit Bob extracts.
C3_MismatchReachable ==
    (call.fn = "exchange" /\ call.step = "params") =>
        \E g \in RandomDraws(Q) :
           \E a \in RandomDraws(call.secretMax), b \in RandomDraws(call.secretMax) :
              \E na \in {addNoise(PublicOf(g, a), byte) : byte \in Byte} :
                 \E nb \in {addNoise(PublicOf(g, b), byte) : byte \in Byte} :
                    MsbOf(SharedOf(nb, a)) # MsbOf(SharedOf(na, b))

\* A finished exchange with a widened secret bound, secrets that the reference
\* bound SECRET_MAX excludes, and two different key bits.
C3_Witness ==
    /\ call.fn = "exchange"
    /\ call.step = "done"
    /\ call.secretMax \in WideSecretBounds
    /\ call.a >= SECRET_MAX /\ call.b >= SECRET_MAX
    /\ call.keyA # call.keyB

\* C4. Noise injection range: for every value in [0, Q) and every random byte,
\* addNoise(value) is in [0, Q) and is (value - 1) mod Q, value or
\* (value + 1) mod Q, also where value - 1 or value + 1 leaves [0, Q).
C4_NoiseInjectionRange ==
    (call.fn = "addNoise" /\ call.randomByte >= 0) =>
        /\ call.result \in 0..(Q - 1)
        /\ call.result \in {(call.value - 1) % Q, call.value, (call.value + 1) % Q}

\* addNoise wrapped around: it took 0 to Q - 1.
C4_Witness ==
    /\ call.fn = "addNoise"
    /\ call.value = 0
    /\ call.randomByte = MaxByte
    /\ call.result = Q - 1

\* C5. Uniform noise: over the 256 values of the random byte, each of the noise
\* terms -1, 0 and +1 is produced by the same number of byte values.
C5_UniformNoise ==
    (call.fn = "addNoise" /\ call.randomByte = MaxByte) =>
        /\ call.tally[-1] = call.tally[0]
        /\ call.tally[0] = call.tally[1]

\* C6. Random source range: for every bound max >= 1 and every content of the
\* byte array, randomBigInt(max) is in [0, max); so every basis entry of the
\* script is in [0, Q) and every secret of either party is in [0, SECRET_MAX).
C6_RandomSourceRange ==
    /\ (call.fn = "randomBigInt" /\ call.returned) =>
          call.result >= 0 /\ call.result < call.max
    /\ \A i \in 1..Len(G_ARRAY) : G_ARRAY[i] \in 0..(Q - 1)
    /\ \A i \in 1..Len(aliceSecrets) : aliceSecrets[i] \in 0..(SECRET_MAX - 1)
    /\ \A i \in 1..Len(bobSecrets) : bobSecrets[i] \in 0..(SECRET_MAX - 1)

\* randomBigInt(Q) returned, and only the reduction modulo Q kept it below Q.
C6_Witness ==
    /\ call.fn = "randomBigInt"
    /\ call.returned
    /\ call.max = Q
    /\ call.array[1] = MaxByte
    /\ call.result = MaxByte % Q

\* C9. Key assembly round trip: bitsToBigInt puts the bit of dimension i at bit
\* n - 1 - i of the result (dimension 0 is most significant), so the result is
\* in [0, 2^n); its hexadecimal string, zero-padded to n / 4 digits, has n / 4
\* digits and reads back, most significant bit first, as the original bits.
C9_KeyAssemblyRoundTrip ==
    call.fn = "bitsToBigInt" =>
        LET n == Len(call.bits) IN
        /\ call.step # "assemble" =>
              /\ call.value \in 0..(2^n - 1)
              /\ \A i \in 1..n : BitAt(call.value, n - i) = call.bits[i]
        /\ call.step \in {"decode", "done"} => Len(call.hex) = n \div 4
        /\ call.step = "done" => call.decoded = call.bits

\* A key with a whole leading zero digit went through the round trip.
C9_Witness ==
    /\ call.fn = "bitsToBigInt"
    /\ call.step = "done"
    /\ call.bits = <<0, 0, 0, 0, 1, 0, 1, 1>>
    /\ call.hex = <<"0", "b">>
    /\ call.decoded = call.bits

=============================================================================
